---- MODULE Spec2Model ----
(***************************************************************************)
(* A model of stargazers/cli.py: the commands "repos", "forkers" and       *)
(* "account-trend", the page-level fetches they use, the per-actor         *)
(* metadata lookup, the account-trend aggregation and summarize_and_save.  *)
(*                                                                         *)
(* Strings that the code inspects character by character (repository      *)
(* identifiers, column names, file names) are sequences of one-character   *)
(* strings.  A calendar date is its day number; a timestamp is             *)
(* day * SlotsPerDay + slot, the slot being the time of day.               *)
(***************************************************************************)
EXTENDS Integers, Sequences, FiniteSets, TLC

\* ------------------------------------------------------------------ bounds

\* The days the modelled API can report an event on go up to MaxDay - 1.
MaxDay == 3
\* Distinct times of day a timestamp can carry.
SlotsPerDay == 2
\* Most items the modelled API returns over one whole run.
MaxEvents == 3

\* ----------------------------------------------------------------- strings

Ord(c) ==
    CASE c = "/" -> 47
      [] c = "_" -> 95
      [] c = "a" -> 97
      [] c = "b" -> 98
      [] c = "u" -> 117
      [] c = "v" -> 118
      [] c = "x" -> 120
      [] c = "y" -> 121
      [] OTHER -> 0

\* Python's < on str: lexicographic by code point, a proper prefix is smaller.
RECURSIVE StrLess(_, _)
StrLess(s, t) ==
    IF t = <<>> THEN FALSE
    ELSE IF s = <<>> THEN TRUE
    ELSE IF s[1] # t[1] THEN Ord(s[1]) < Ord(t[1])
    ELSE StrLess(Tail(s), Tail(t))

\* str.replace(old, new) for one-character old and new.
Replace(s, old, new) == [i \in 1..Len(s) |-> IF s[i] = old THEN new ELSE s[i]]

\* "x" in s, for a one-character x.
Contains(s, c) == \E i \in 1..Len(s) : s[i] = c

EndsWith(s, suffix) ==
    /\ Len(s) >= Len(suffix)
    /\ SubSeq(s, Len(s) - Len(suffix) + 1, Len(s)) = suffix

NEW_STARS == <<"_", "n", "e", "w", "_", "s", "t", "a", "r", "s">>
CUMULATIVE_STARS ==
    <<"_", "c", "u", "m", "u", "l", "a", "t", "i", "v", "e", "_", "s", "t", "a", "r", "s">>
SUFFIX_X == <<"_", "x">>
SUFFIX_Y == <<"_", "y">>
STARGAZERS == <<"s", "t", "a", "r", "g", "a", "z", "e", "r", "s">>
FORKERS == <<"f", "o", "r", "k", "e", "r", "s">>
ACCOUNT_STARS_BY_DAY ==
    <<"a", "c", "c", "o", "u", "n", "t", "_", "s", "t", "a", "r", "s", "_", "b", "y", "_", "d", "a", "y">>
ALL_REPOS == <<"a", "l", "l", "_", "r", "e", "p", "o", "s">>
CSV == <<".", "c", "s", "v">>

\* ------------------------------------------------------- sequence helpers

RECURSIVE SumSeq(_)
SumSeq(s) == IF s = <<>> THEN 0 ELSE s[1] + SumSeq(Tail(s))

\* Mutant of CumSum: the previous total is not carried into the next row.
CumSumNoCarry(s) == s

\* Series.cumsum(): the running sum, row by row.
RECURSIVE CumSum(_)
CumSum(s) ==
    IF s = <<>> THEN <<>>
    ELSE LET p == CumSum(SubSeq(s, 1, Len(s) - 1))
         IN  Append(p, (IF p = <<>> THEN 0 ELSE p[Len(p)]) + s[Len(s)])

\* The elements of a set of integers in ascending order.
RECURSIVE SortedInts(_)
SortedInts(S) ==
    IF S = {} THEN <<>>
    ELSE LET m == CHOOSE x \in S : \A y \in S : x <= y
         IN  <<m>> \o SortedInts(S \ {m})

\* sorted(list(set(names))): a set of strings in ascending order.
RECURSIVE SortedStrs(_)
SortedStrs(S) ==
    IF S = {} THEN <<>>
    ELSE LET m == CHOOSE x \in S : \A y \in S \ {x} : StrLess(x, y)
         IN  <<m>> \o SortedStrs(S \ {m})

Range(s) == {s[i] : i \in DOMAIN s}

\* ------------------------------------------------------------ text of a csv

Digits == <<"0", "1", "2", "3", "4", "5", "6", "7", "8", "9">>

\* str(n) of a count, as to_csv writes an integer cell.
RECURSIVE Str(_)
Str(n) == IF n < 10 THEN <<Digits[n + 1]>> ELSE Append(Str(n \div 10), Digits[(n % 10) + 1])

\* What no text parses to: counts and day numbers are >= 0.
Unparsed == -1

\* The integer a cell holds, as read_csv parses it for an int column.
RECURSIVE ParseInt(_)
ParseInt(text) ==
    IF text = <<>> \/ \E i \in DOMAIN text : text[i] \notin Range(Digits) THEN Unparsed
    ELSE LET digit == (CHOOSE d \in DOMAIN Digits : Digits[d] = text[Len(text)]) - 1
         IN  IF Len(text) = 1 THEN digit
             ELSE 10 * ParseInt(SubSeq(text, 1, Len(text) - 1)) + digit

\* Day 0 of the model is 2024-01-01, and no modelled day leaves January.
YEAR_MONTH == <<"2", "0", "2", "4", "-", "0", "1", "-">>

\* A datetime64 cell as to_csv writes it: YYYY-MM-DD.
FormatDate(d) ==
    YEAR_MONTH \o (IF d + 1 < 10 THEN <<"0">> ELSE <<>>) \o Str(d + 1)

\* pd.to_datetime of a cell: the day number, Unparsed for a text that is
\* no date.
ParseDate(text) ==
    IF /\ Len(text) = Len(YEAR_MONTH) + 2
       /\ SubSeq(text, 1, Len(YEAR_MONTH)) = YEAR_MONTH
       /\ ParseInt(SubSeq(text, Len(YEAR_MONTH) + 1, Len(text))) >= 1
    THEN ParseInt(SubSeq(text, Len(YEAR_MONTH) + 1, Len(text))) - 1
    ELSE Unparsed

\* ------------------------------------------------ account-trend aggregation

\* pd.to_datetime(...).dt.date: the time of day is dropped.
StarDate(starred_at) == starred_at \div SlotsPerDay

\* Mutant of EventFrame: an event listed more than once is kept once
\* (drop_duplicates on the collected events).
EventFrameDeduplicated(all_star_events) ==
    LET kept == SelectSeq([i \in DOMAIN all_star_events |-> <<i, all_star_events[i]>>],
                          LAMBDA p : \A j \in 1 .. (p[1] - 1) : all_star_events[j] # p[2])
    IN  [i \in DOMAIN kept |->
            [repo_name |-> kept[i][2].repo_name,
             star_date |-> StarDate(kept[i][2].starred_at)]]

\* df: one row per collected event, with its star_date column.
EventFrame(all_star_events) ==
    [i \in 1..Len(all_star_events) |->
        [repo_name |-> all_star_events[i].repo_name,
         star_date |-> StarDate(all_star_events[i].starred_at)]]

\* df.groupby(["repo_name", "star_date"]).size(), sorted by the two keys,
\* with the per-repository running sum of new_stars_on_day.
PerRepoDaily(df) ==
    LET names == SortedStrs({df[i].repo_name : i \in DOMAIN df})
        RowsOf(r) ==
            LET dates == SortedInts({df[i].star_date : i \in {j \in DOMAIN df : df[j].repo_name = r}})
                new == [k \in 1..Len(dates) |->
                          Cardinality({i \in DOMAIN df :
                              df[i].repo_name = r /\ df[i].star_date = dates[k]})]
                cum == CumSum(new)
            IN  [k \in 1..Len(dates) |->
                    [repo_name |-> r, star_date |-> dates[k],
                     new_stars_on_day |-> new[k],
                     cumulative_stars_up_to_day |-> cum[k]]]
        RECURSIVE Cat(_)
        Cat(k) == IF k > Len(names) THEN <<>> ELSE RowsOf(names[k]) \o Cat(k + 1)
    IN  Cat(1)

\* Mutant of DailyStars: the days without any event are not filled in.
DailyStarsNoReindex(df) ==
    LET idx == SortedInts({df[i].star_date : i \in DOMAIN df})
        new == [k \in 1..Len(idx) |->
                  Cardinality({i \in DOMAIN df : df[i].star_date = idx[k]})]
        cum == CumSum(new)
    IN  [k \in 1..Len(idx) |->
            [star_date |-> idx[k],
             total_new_stars_on_day |-> new[k],
             total_cumulative_stars_up_to_day |-> cum[k]]]

\* df.groupby("star_date").size(), reindexed on every day from the first to
\* the last (fill_value=0), with the running sum as the cumulative column.
DailyStars(df) ==
    LET present == {df[i].star_date : i \in DOMAIN df}
        lo == CHOOSE d \in present : \A e \in present : d <= e
        hi == CHOOSE d \in present : \A e \in present : d >= e
        idx == [k \in 1..(hi - lo + 1) |-> lo + k - 1]
        new == [k \in 1..Len(idx) |->
                  Cardinality({i \in DOMAIN df : df[i].star_date = idx[k]})]
        cum == CumSum(new)
    IN  [k \in 1..Len(idx) |->
            [star_date |-> idx[k],
             total_new_stars_on_day |-> new[k],
             total_cumulative_stars_up_to_day |-> cum[k]]]

\* A missing value (NaN) of the left merge of line 504; counts are >= 0.
NaN == -1

\* Mutant of Ffill: a missing value takes the next value seen after it.
RECURSIVE FfillBackward(_)
FfillBackward(s) ==
    IF s = <<>> THEN <<>>
    ELSE LET p == FfillBackward(Tail(s))
             v == s[1]
         IN  <<IF v # NaN \/ p = <<>> THEN v ELSE p[1]>> \o p

\* Mutant of Ffill: missing values are left missing.
FfillNothing(s) == s

\* Series.ffill(): a missing value takes the last value seen before it.
RECURSIVE Ffill(_)
Ffill(s) ==
    IF s = <<>> THEN <<>>
    ELSE LET p == Ffill(SubSeq(s, 1, Len(s) - 1))
             v == s[Len(s)]
         IN  Append(p, IF v # NaN \/ p = <<>> THEN v ELSE p[Len(p)])

\* Series.fillna(0).
Fillna(s) == [k \in DOMAIN s |-> IF s[k] = NaN THEN 0 ELSE s[k]]

\* final_df[name] = vals: a new column goes last, an existing one is
\* overwritten in place.
SetColumn(fd, name, vals) ==
    [columns |-> IF name \in Range(fd.columns) THEN fd.columns
                 ELSE Append(fd.columns, name),
     rows |-> [k \in DOMAIN fd.rows |->
                 [fd.rows[k] EXCEPT !.c =
                     [n \in DOMAIN fd.rows[k].c \cup {name} |->
                         IF n = name THEN vals[k] ELSE fd.rows[k].c[n]]]]]

RenameColumn(fd, old, new) ==
    [columns |-> [i \in DOMAIN fd.columns |->
                     IF fd.columns[i] = old THEN new ELSE fd.columns[i]],
     rows |-> [k \in DOMAIN fd.rows |->
                 [fd.rows[k] EXCEPT !.c =
                     [n \in (DOMAIN fd.rows[k].c \ {old}) \cup {new} |->
                         IF n = new THEN fd.rows[k].c[old] ELSE fd.rows[k].c[n]]]]]

\* final_df.merge(temp_df renamed to name, on="star_date", how="left"):
\* temp_df has one row per date of final_df, so the rows stay as they are
\* and the column is added; a column already called name is an overlapping
\* column, and pandas then suffixes the left one _x and the right one _y.
MergeColumn(fd, name, vals) ==
    IF name \in Range(fd.columns)
    THEN SetColumn(RenameColumn(fd, name, name \o SUFFIX_X), name \o SUFFIX_Y, vals)
    ELSE SetColumn(fd, name, vals)

\* One pass of the loop of lines 495-519.
MergeRepo(fd, repo, per_repo_daily) ==
    LET repo_data == SelectSeq(per_repo_daily, LAMBDA r : r.repo_name = repo)
        repo_col_prefix == Replace(repo, "/", "_")
        dates == [k \in DOMAIN fd.rows |-> fd.rows[k].star_date]
        merged == [k \in DOMAIN dates |->
                     IF \E j \in DOMAIN repo_data : repo_data[j].star_date = dates[k]
                     THEN LET j == CHOOSE j \in DOMAIN repo_data :
                                      repo_data[j].star_date = dates[k]
                          IN  repo_data[j].cumulative_stars_up_to_day
                     ELSE NaN]
        cumulative == Fillna(Ffill(merged))
        new == [k \in DOMAIN dates |->
                   IF \E j \in DOMAIN repo_data : repo_data[j].star_date = dates[k]
                   THEN LET j == CHOOSE j \in DOMAIN repo_data :
                                    repo_data[j].star_date = dates[k]
                        IN  repo_data[j].new_stars_on_day
                   ELSE 0]
    IN  IF repo_data = <<>> THEN fd
        ELSE MergeColumn(SetColumn(fd, repo_col_prefix \o NEW_STARS, new),
                         repo_col_prefix \o CUMULATIVE_STARS, cumulative)

RECURSIVE MergeRepos(_, _, _, _)
MergeRepos(fd, repos_to_process, per_repo_daily, k) ==
    IF k > Len(repos_to_process) THEN fd
    ELSE MergeRepos(MergeRepo(fd, repos_to_process[k], per_repo_daily),
                    repos_to_process, per_repo_daily, k + 1)

\* Lines 463-519: the table account-trend builds from the collected events.
AccountTrendTable(repos_to_process, all_star_events) ==
    LET df == EventFrame(all_star_events)
        daily_stars == DailyStars(df)
        start == [columns |-> <<>>,
                  rows |-> [k \in DOMAIN daily_stars |->
                     [star_date |-> daily_stars[k].star_date,
                      total_new_stars_on_day |-> daily_stars[k].total_new_stars_on_day,
                      total_cumulative_stars_up_to_day |->
                          daily_stars[k].total_cumulative_stars_up_to_day,
                      c |-> <<>>]]]
    IN  MergeRepos(start, repos_to_process, PerRepoDaily(df), 1)

\* --------------------------------------------------------------- the inputs

\* Most pages one fetch is answered with before the API stops announcing more.
MaxPages == 2

USERNAME == <<"u">>
REPO_UAB == <<"u", "/", "a", "_", "b">>
REPO_U_AB == <<"u", "_", "a", "/", "b">>
REPO_VA == <<"v", "/", "a">>
NO_SLASH == <<"u", "a">>
TWO_SLASHES == <<"u", "/", "a", "/", "b">>

\* The keys fetch_user_metadata wants in an embedded profile (line 183).
ProfileKeys == {"name", "company", "location", "email", "bio", "followers", "public_repos"}

\* The profile embedded in a list item: the list endpoints give the login
\* only; a complete one carries the seven keys as well.
SlimProfile(login) == [login |-> login]
FullProfile(login, location) ==
    [login |-> login, name |-> "null", company |-> "null", location |-> location,
     email |-> "null", bio |-> "null", followers |-> "0", public_repos |-> "0"]

\* The instants the modelled API reports: two times of day on day 0, the
\* start of day 1 and the start of the last day.
Stamps == {0, 1} \cup {d * SlotsPerDay : d \in {1, MaxDay - 1}}

\* Items of a stargazers page ({"starred_at", "user"}) or a forks page
\* ({"created_at", "owner"}); at is the timestamp, user the embedded profile.
ApiItems(command) ==
    IF command = "account-trend"
    THEN {[at |-> t, user |-> SlimProfile("x")] : t \in Stamps}
    ELSE {[at |-> 0, user |-> SlimProfile("x")],
          [at |-> SlotsPerDay + 1, user |-> SlimProfile("x")],
          [at |-> SlotsPerDay + 1, user |-> FullProfile("y", "Mars")]}

\* Entries of a users/{username}/repos page.
ApiRepos ==
    {[full_name |-> REPO_UAB, owner |-> [login |-> USERNAME]],
     [full_name |-> REPO_VA, owner |-> [login |-> <<"v">>]]}

RECURSIVE SeqsUpTo(_, _)
SeqsUpTo(S, n) ==
    IF n = 0 THEN {<<>>}
    ELSE LET shorter == SeqsUpTo(S, n - 1)
         IN  shorter \cup {Append(q, x) : q \in {r \in shorter : Len(r) = n - 1}, x \in S}

\* The command lines of account-trend: include_repos, exclude_repos, line_chart.
TrendChoices ==
    {<<<<>>, <<>>, FALSE>>,
     <<<<REPO_U_AB>>, <<>>, TRUE>>,
     <<<<REPO_UAB, REPO_VA>>, <<>>, TRUE>>,
     <<<<REPO_UAB, REPO_VA>>, <<REPO_VA>>, FALSE>>,
     <<<<REPO_VA>>, <<REPO_VA, REPO_UAB>>, TRUE>>,
     <<<<NO_SLASH>>, <<REPO_UAB, REPO_VA>>, FALSE>>,
     <<<<TWO_SLASHES>>, <<REPO_UAB, REPO_VA>>, FALSE>>}
\* The command lines of repos and of forkers.
RepositoriesChoices(command) ==
    IF command = "forkers" THEN {<<REPO_UAB>>, <<NO_SLASH, REPO_VA>>}
    ELSE {<<REPO_UAB>>, <<REPO_UAB, REPO_VA>>, <<NO_SLASH>>, <<NO_SLASH, REPO_VA>>,
          <<TWO_SLASHES>>}

\* ---------------------------------------------------------------- the state

VARIABLES
    cmd,            \* the command invoked
    username,       \* account-trend's argument
    include_repos,  \* --include-repo values
    exclude_repos,  \* --exclude-repo values
    line_chart,     \* --line-chart
    repositories,   \* the arguments of repos and forkers
    file,           \* plot: the csv that --file names
    title_option,   \* plot: --title, empty when not given
    exported,       \* the rows of the table the csv was written from, when
                    \* it is a file account-trend wrote
    st,             \* the run: the locals of the running functions, the
                    \* output produced and the observations made of it
    answer,         \* _handle_api_error on its own: the response it is given
    handled         \* and what it did with it

args == <<cmd, username, include_repos, exclude_repos, line_chart, repositories,
          file, title_option, exported>>
probe == <<answer, handled>>
vars == <<cmd, username, include_repos, exclude_repos, line_chart, repositories,
          file, title_option, exported, st, answer, handled>>

TimestampKey == IF cmd = "forkers" THEN "forked_at" ELSE "starred_at"

EmptyFrame == [columns |-> <<>>, rows |-> <<>>]
NoFailure == [kind |-> "none", where |-> "none", target |-> <<>>, page |-> 0,
              had |-> <<>>, raised |-> FALSE]

\* No answer yet, or no answer at all (httpx.RequestError).
NoResponse ==
    [where |-> "none", status_code |-> 0, rate_limit |-> FALSE, headers |-> {},
     now |-> 0, json |-> <<>>, next |-> FALSE]

\* pc is the request the run waits on ("start" before the command runs,
\* "done" after it ended).
StartState ==
    [pc |-> "start",
     page |-> 0,                     \* params["page"], 0 outside a fetch
     repos |-> <<>>,                 \* fetch_user_repos
     repos_to_process |-> <<>>,      \* account_trend_command
     idx |-> 0,                      \* position of the loop over repositories
     users_with_starred_at |-> <<>>, \* fetch_stargazers
     fork_details |-> <<>>,          \* fetch_forkers
     all_star_events |-> <<>>,       \* account_trend_command
     users_info |-> <<>>,            \* fetch_user_metadata
     user_i |-> 0,                   \* position of its loop over users_info
     retries |-> 0,
     data |-> <<>>,
     all_metadata |-> <<>>,          \* the repos and forkers commands
     final_df |-> EmptyFrame,
     charts |-> <<>>,                \* what plt.scatter was given
     files |-> <<>>,                 \* what df.to_csv wrote
     printed |-> <<>>,               \* the digests of summarize_and_save
     exit_code |-> 0,
     calls |-> <<>>,                 \* the repositories fetched, in call order
     n_items |-> 0,                  \* items received so far
     failure |-> NoFailure,          \* the last failed request
     last |-> NoResponse,            \* the last answer the running fetch went
                                     \* on from (a success or a rate limit)
     slept |-> <<>>,                 \* the time.sleep calls made on a rate limit
     lookups |-> <<>>]               \* fetch_user_metadata: how each event of
                                     \* the call got, or lost, its profile

\* raise SystemExit(code), or the return of the command (code 0).
Exit(S, code) == [S EXCEPT !.pc = "done", !.exit_code = code]

\* ------------------------------------------------------- _handle_api_error

\* Mutant of HandleApiError: 404 is not an error.
HandleApiErrorIgnores404(response) ==
    IF response.status_code = 404 THEN "none"
    ELSE IF response.status_code = 403 /\ response.rate_limit THEN "retry"
    ELSE IF response.status_code # 200 THEN "exit"
    ELSE "none"

\* "exit" stands for raise SystemExit(1), "none" for return None.
HandleApiError(response) ==
    IF response.status_code = 404 THEN "exit"
    ELSE IF response.status_code = 403 /\ response.rate_limit THEN "retry"
    ELSE IF response.status_code # 200 THEN "exit"
    ELSE "none"

X_RATELIMIT_RESET == "X-RateLimit-Reset"

\* Mutant of WaitTime: the wait is not floored at one second.
WaitTimeNoFloor(response) ==
    IF \E h \in response.headers : h[1] = X_RATELIMIT_RESET
    THEN LET reset_time == (CHOOSE h \in response.headers : h[1] = X_RATELIMIT_RESET)[2]
         IN  reset_time - response.now
    ELSE 60

\* Lines 34-37: wait_time of a rate-limit answer; response.now is what
\* int(time.time()) gives when the answer is handled.
WaitTime(response) ==
    IF \E h \in response.headers : h[1] = X_RATELIMIT_RESET
    THEN LET reset_time == (CHOOSE h \in response.headers : h[1] = X_RATELIMIT_RESET)[2]
             remaining == reset_time - response.now
         IN  IF remaining > 1 THEN remaining ELSE 1
    ELSE 60

\* _handle_api_error was not called yet.
NotHandled == [error_action |-> "pending", slept |-> <<>>]

\* What a response that is not a success is, by its status and body.
FailureKind(response) ==
    IF response.status_code = 404 THEN "not_found"
    ELSE IF response.status_code = 403 /\ response.rate_limit THEN "rate_limit"
    ELSE "status"

\* What a request can be answered with: a response, or no response at all
\* (httpx.RequestError).
OkResponses(batches, more) ==
    {[status_code |-> 200, rate_limit |-> FALSE, headers |-> {}, now |-> 0,
      json |-> b, next |-> x] :
        b \in batches, x \in (IF more THEN BOOLEAN ELSE {FALSE})}

\* The pages the API can answer a fetch with: any items in any order, the
\* run receiving MaxEvents items at most.
ItemPages(S) == SeqsUpTo(ApiItems(cmd), MaxEvents - S.n_items)

\* The pages of users/{username}/repos after the repositories in seen: the
\* API lists a repository once.
RepoPages(seen) ==
    {b \in SeqsUpTo(ApiRepos, 2) :
        /\ \A i, j \in DOMAIN b : b[i] = b[j] => i = j
        /\ \A i \in DOMAIN b : b[i].full_name \notin Range(seen)}
\* The answers that are not a success; a rate-limit answer comes without
\* the reset header or with a reset time after the clock reading.
ErrorResponses ==
    {[status_code |-> c, rate_limit |-> r, headers |-> {}, now |-> 2,
      json |-> <<>>, next |-> FALSE] :
        c \in {403, 404, 500}, r \in BOOLEAN}
    \cup
    {[status_code |-> 403, rate_limit |-> TRUE,
      headers |-> {<<X_RATELIMIT_RESET, reset_time>>}, now |-> 2,
      json |-> <<>>, next |-> FALSE] :
        reset_time \in {5}}

\* ------------------------------------------------------- summarize_and_save

\* Mutant of SortDescending: the rows are written in the order given.
SortKeepsOrder(rows, key) == rows

\* df.sort_values(key, ascending=False): by descending key; rows with equal
\* keys keep their order (pandas reverses, sorts stably and reverses back).
RECURSIVE SortDescending(_, _)
SortDescending(rows, key) ==
    IF rows = <<>> THEN <<>>
    ELSE LET sorted == SortDescending(SubSeq(rows, 1, Len(rows) - 1), key)
             row == rows[Len(rows)]
             before == Cardinality({i \in DOMAIN sorted : sorted[i][key] >= row[key]})
         IN  SubSeq(sorted, 1, before) \o <<row>> \o SubSeq(sorted, before + 1, Len(sorted))

\* df["location"].value_counts().head(10): the non-null locations with the
\* number of rows each has, the ten most frequent at most.
TopLocations(df) ==
    LET locs == {df[i].location : i \in DOMAIN df} \ {"null"}
        Count(l) == Cardinality({i \in DOMAIN df : df[i].location = l})
        top == IF Cardinality(locs) <= 10 THEN locs
               ELSE CHOOSE T \in SUBSET locs :
                       /\ Cardinality(T) = 10
                       /\ \A a \in T, b \in locs \ T : Count(a) >= Count(b)
    IN  [l \in top |-> Count(l)]

\* Lines 280-288: one line per column ending in _new_stars, up to the first
\* whose cumulative column is missing (df[cumul_col] then raises KeyError).
RECURSIVE PerRepositorySummary(_, _, _)
PerRepositorySummary(df, columns, k) ==
    IF k > Len(columns) THEN [lines |-> <<>>, key_error |-> FALSE]
    ELSE LET col == columns[k]
             stem == SubSeq(col, 1, Len(col) - 10)
             repo_name == Replace(stem, "_", "/")
             cumul_col == stem \o CUMULATIVE_STARS
             rest == PerRepositorySummary(df, columns, k + 1)
         IN  IF ~EndsWith(col, NEW_STARS) THEN rest
             ELSE IF cumul_col \notin Range(columns)
             THEN [lines |-> <<>>, key_error |-> TRUE]
             ELSE [lines |-> <<[repo_name |-> repo_name,
                                final_stars |-> df[1].c[cumul_col]]>> \o rest.lines,
                   key_error |-> rest.key_error]

\* Lines 272-288: the digest of a trend export.
TrendSummary(df, columns) ==
    LET dates == {df[i].star_date : i \in DOMAIN df}
        per_repo == PerRepositorySummary(df, columns, 1)
    IN  [kind |-> "trend",
         date_min |-> CHOOSE d \in dates : \A e \in dates : d <= e,
         date_max |-> CHOOSE d \in dates : \A e \in dates : d >= e,
         total_new |-> SumSeq([i \in DOMAIN df |-> df[i].total_new_stars_on_day]),
         final_cumulative |-> df[Len(df)].total_cumulative_stars_up_to_day,
         per_repo |-> per_repo.lines,
         key_error |-> per_repo.key_error]

\* Mutant of OutputFile: the '/' of the base name is kept.
OutputFileKeepsSlash(base_name, output_file_suffix) ==
    base_name \o <<"_">> \o output_file_suffix \o CSV

\* Line 262: the name of the file written.
OutputFile(base_name, output_file_suffix) ==
    Replace(base_name, "/", "_") \o <<"_">> \o output_file_suffix \o CSV

\* summarize_and_save(data, base_name, output_file_suffix, timestamp_key);
\* columns are the per-repository columns of a trend table, in order.  An
\* uncaught KeyError ends the process with exit code 1, after the file was
\* written.
SummarizeAndSave(S, data, columns, base_name, output_file_suffix, timestamp_key) ==
    IF data = <<>> THEN S
    ELSE LET df == IF \E i \in DOMAIN data : timestamp_key \in DOMAIN data[i]
                   THEN SortDescending(data, timestamp_key)
                   ELSE data
             written == [S EXCEPT !.files = Append(@,
                            [name |-> OutputFile(base_name, output_file_suffix),
                             columns |-> columns, rows |-> df])]
         IN  IF \E i \in DOMAIN df : "location" \in DOMAIN df[i]
             THEN IF DOMAIN TopLocations(df) = {} THEN written
                  ELSE [written EXCEPT !.printed = Append(@,
                            [kind |-> "locations", top |-> TopLocations(df)])]
             ELSE IF \E i \in DOMAIN df : "total_new_stars_on_day" \in DOMAIN df[i]
             THEN LET summary == TrendSummary(df, columns)
                      shown == [written EXCEPT !.printed = Append(@, summary)]
                  IN  IF summary.key_error THEN Exit(shown, 1) ELSE shown
             ELSE written

\* plot_account_trend(df, title): the points handed to plt.scatter.
PlotAccountTrend(S, df, title) ==
    IF df = <<>> THEN S
    ELSE LET first_date == df[1].star_date
         IN  [S EXCEPT !.charts = Append(@,
                [title |-> title,
                 x_values |-> [i \in DOMAIN df |-> df[i].star_date - first_date],
                 y_values |-> [i \in DOMAIN df |->
                                 df[i].total_cumulative_stars_up_to_day]])]

\* ------------------------------------------------------------ the csv file

\* The columns every trend row has, in the order to_csv writes them.
TrendColumns == <<"star_date", "total_new_stars_on_day", "total_cumulative_stars_up_to_day">>

NoFile == [name |-> <<>>, fixed |-> <<>>, columns |-> <<>>, lines |-> <<>>]

\* Line 264, df.to_csv(output_file, index=False), of a trend frame: a header
\* and one line of text cells per row; fixed are the three trend columns and
\* columns the per-repository ones.
ToCsv(written) ==
    [name |-> written.name,
     fixed |-> TrendColumns,
     columns |-> written.columns,
     lines |-> [k \in DOMAIN written.rows |->
                 [star_date |-> FormatDate(written.rows[k].star_date),
                  total_new_stars_on_day |-> Str(written.rows[k].total_new_stars_on_day),
                  total_cumulative_stars_up_to_day |->
                      Str(written.rows[k].total_cumulative_stars_up_to_day),
                  c |-> [n \in DOMAIN written.rows[k].c |-> Str(written.rows[k].c[n])]]]]

\* Lines 547-549, pd.read_csv(file, dtype=dtype_map): the two count columns
\* are parsed as int where the file has them, and a cell that is no integer
\* raises; the other cells are inferred.
ReadCsv(csv) ==
    LET dtype_map == {"total_new_stars_on_day", "total_cumulative_stars_up_to_day"}
        Inferred(text) == IF ParseInt(text) # Unparsed THEN ParseInt(text) ELSE text
        Cell(line, col) ==
            IF col \in dtype_map THEN ParseInt(line[col])
            ELSE IF col = "c" THEN [n \in DOMAIN line.c |-> Inferred(line.c[n])]
            ELSE line[col]
    IN  [error |-> \E k \in DOMAIN csv.lines, col \in dtype_map \cap Range(csv.fixed) :
                      ParseInt(csv.lines[k][col]) = Unparsed,
         fixed |-> csv.fixed,
         columns |-> csv.columns,
         rows |-> [k \in DOMAIN csv.lines |->
                     [col \in DOMAIN csv.lines[k] |-> Cell(csv.lines[k], col)]]]

\* Mutant of SortAscending: the rows stay in the order of the file.
SortAsFiled(rows, key) == rows

\* df.sort_values(key): by ascending key, rows with equal keys in the order
\* they had.
RECURSIVE SortAscending(_, _)
SortAscending(rows, key) ==
    IF rows = <<>> THEN <<>>
    ELSE LET sorted == SortAscending(SubSeq(rows, 1, Len(rows) - 1), key)
             row == rows[Len(rows)]
             before == Cardinality({i \in DOMAIN sorted : sorted[i][key] <= row[key]})
         IN  SubSeq(sorted, 1, before) \o <<row>> \o SubSeq(sorted, before + 1, Len(sorted))

\* Lines 559-561 of plot_command: star_date becomes a date and the rows are
\* put in date order.
DatedRows(df) ==
    SortAscending([k \in DOMAIN df.rows |->
                      [df.rows[k] EXCEPT !.star_date = ParseDate(@)]], "star_date")

\* str.replace(sub, "") for a substring sub.
RECURSIVE RemoveAll(_, _)
RemoveAll(s, sub) ==
    IF Len(s) < Len(sub) THEN s
    ELSE IF SubSeq(s, 1, Len(sub)) = sub
    THEN RemoveAll(SubSeq(s, Len(sub) + 1, Len(s)), sub)
    ELSE <<s[1]>> \o RemoveAll(Tail(s), sub)

\* Lines 564-570: the title given, or the name the file name ends the
\* phrase "Cumulative Stars Over Time for" with; empty stands for the
\* phrase without a name.
PlotTitle ==
    LET base_name == IF EndsWith(file.name, CSV)
                     THEN SubSeq(file.name, 1, Len(file.name) - Len(CSV))
                     ELSE file.name
        ending == <<"_">> \o ACCOUNT_STARS_BY_DAY
    IN  IF title_option # <<>> THEN title_option
        ELSE IF EndsWith(base_name, ending) THEN RemoveAll(base_name, ending)
        ELSE <<>>

\* Mutant of RequiredColumnsPresent: only the two columns the chart is
\* drawn from are asked for.
PlottedColumnsPresent(df) ==
    LET required_columns == {"star_date", "total_cumulative_stars_up_to_day"}
    IN  \A col \in required_columns : col \in Range(df.fixed)

\* Lines 553-554: all(col in df.columns for col in required_columns).
RequiredColumnsPresent(df) ==
    LET required_columns == Range(TrendColumns)
    IN  \A col \in required_columns : col \in Range(df.fixed)

\* Lines 539-576, plot_command(file, "account-trend", title).
PlotCommand(S) ==
    LET df == ReadCsv(file)
    IN  IF df.error THEN Exit(S, 1)
        ELSE IF ~RequiredColumnsPresent(df) THEN Exit(S, 1)
        ELSE IF \E k \in DOMAIN df.rows : ParseDate(df.rows[k].star_date) = Unparsed
        THEN Exit(S, 1)
        ELSE Exit(PlotAccountTrend(S, DatedRows(df), PlotTitle), 0)

\* ------------------------------------------------------------- the commands

\* The repository the running page-level fetch was called with.
CurrentRepo(S) ==
    IF cmd = "account-trend" THEN S.repos_to_process[S.idx] ELSE repositories[S.idx]

\* The call of fetch_stargazers(repo) or fetch_forkers(repo), up to its
\* first request.
StartFetch(S, repo) ==
    [S EXCEPT !.pc = IF cmd = "forkers" THEN "fetch_forkers" ELSE "fetch_stargazers",
              !.page = 1,
              !.users_with_starred_at = <<>>,
              !.fork_details = <<>>,
              !.calls = Append(@, repo)]

\* Lines 350-359 and 382-391: the end of the repos and forkers commands.
FinishRepos(S) ==
    IF S.all_metadata = <<>> THEN Exit(S, 0)
    ELSE LET base_output_name ==
                 IF Len(repositories) = 1 /\ Contains(repositories[1], "/")
                 THEN repositories[1] ELSE ALL_REPOS
             saved == SummarizeAndSave(S, S.all_metadata, <<>>, base_output_name,
                                       IF cmd = "forkers" THEN FORKERS ELSE STARGAZERS,
                                       TimestampKey)
         IN  IF saved.pc = "done" THEN saved ELSE Exit(saved, 0)

\* Lines 334-341 and 369-374: the loop over the arguments, from position
\* S.idx up to the next fetch.
RECURSIVE ReposNext(_)
ReposNext(S) ==
    IF S.idx > Len(repositories) THEN FinishRepos(S)
    ELSE IF ~Contains(repositories[S.idx], "/")
    THEN ReposNext([S EXCEPT !.idx = @ + 1])
    ELSE StartFetch(S, repositories[S.idx])

Get(u, k) == IF k \in DOMAIN u THEN u[k] ELSE "null"

\* The record built at lines 185-197 and 226-238.
Details(u, user_event) ==
    [login |-> Get(u, "login"), name |-> Get(u, "name"), company |-> Get(u, "company"),
     location |-> Get(u, "location"), email |-> Get(u, "email"), bio |-> Get(u, "bio"),
     followers |-> Get(u, "followers"), public_repos |-> Get(u, "public_repos")]
    @@ (TimestampKey :> user_event[TimestampKey])
    @@ (IF "repo" \in DOMAIN user_event THEN ("repo" :> user_event["repo"]) ELSE <<>>)

\* Mutant of Prefetched: a key with a null value counts as missing.
PrefetchedNonNull(user_event) ==
    /\ DOMAIN user_event["user_details"] # {}
    /\ ProfileKeys \subseteq DOMAIN user_event["user_details"]
    /\ \A k \in ProfileKeys : user_event["user_details"][k] # "null"

\* The profile embedded in the event is used as it is (lines 179-183).
Prefetched(user_event) ==
    /\ DOMAIN user_event["user_details"] # {}
    /\ ProfileKeys \subseteq DOMAIN user_event["user_details"]

\* fetch_user_metadata from event S.user_i up to its next request; when the
\* events are used up it returns to lines 348 and 380 and the loop over the
\* arguments goes on.
RECURSIVE MetadataNext(_)
MetadataNext(S) ==
    IF S.user_i > Len(S.users_info)
    THEN ReposNext([S EXCEPT !.all_metadata = @ \o S.data, !.idx = @ + 1])
    ELSE LET user_event == S.users_info[S.user_i]
         IN  IF Prefetched(user_event)
             THEN MetadataNext([S EXCEPT
                     !.data = Append(@, Details(user_event["user_details"], user_event)),
                     !.lookups = Append(@, "prefetched"),
                     !.user_i = @ + 1])
             ELSE [S EXCEPT !.pc = "fetch_user_metadata", !.retries = 0,
                            !.last = NoResponse, !.slept = <<>>]

\* Lines 344-347 and 376-379: the events get their repo and are enriched.
EnrichEvents(S, events) ==
    MetadataNext([S EXCEPT
        !.users_info = [i \in DOMAIN events |->
                           events[i] @@ ("repo" :> repositories[S.idx])],
        !.user_i = 1,
        !.retries = 0,
        !.data = <<>>,
        !.lookups = <<>>])

\* Mutant of FinishTrend: the check for no events at all is missing, and the
\* empty frame has no starred_at column to convert (KeyError).
FinishTrendNoGuard(S) ==
    IF S.all_star_events = <<>> THEN Exit(S, 1)
    ELSE LET final_df == AccountTrendTable(S.repos_to_process, S.all_star_events)
             built == [S EXCEPT !.final_df = final_df]
             drawn == IF line_chart /\ final_df.rows # <<>>
                      THEN PlotAccountTrend(built, final_df.rows, username)
                      ELSE built
             saved == SummarizeAndSave(drawn, final_df.rows, final_df.columns,
                                       username, ACCOUNT_STARS_BY_DAY, "star_date")
         IN  IF saved.pc = "done" THEN saved ELSE Exit(saved, 0)

\* Lines 457-530: the end of account-trend.
FinishTrend(S) ==
    IF S.all_star_events = <<>> THEN Exit(S, 0)
    ELSE LET final_df == AccountTrendTable(S.repos_to_process, S.all_star_events)
             built == [S EXCEPT !.final_df = final_df]
             drawn == IF line_chart /\ final_df.rows # <<>>
                      THEN PlotAccountTrend(built, final_df.rows, username)
                      ELSE built
             saved == SummarizeAndSave(drawn, final_df.rows, final_df.columns,
                                       username, ACCOUNT_STARS_BY_DAY, "star_date")
         IN  IF saved.pc = "done" THEN saved ELSE Exit(saved, 0)

\* Lines 451-455: the loop over repos_to_process, at position S.idx.
TrendNext(S) ==
    IF S.idx > Len(S.repos_to_process) THEN FinishTrend(S)
    ELSE StartFetch(S, S.repos_to_process[S.idx])

\* Mutant of ReposToProcess: the candidates are not deduplicated.
ReposToProcessNoDedup(user_owned_repos) ==
    LET candidate_repos == user_owned_repos \o include_repos
    IN  IF exclude_repos # <<>>
        THEN SelectSeq(candidate_repos, LAMBDA repo : repo \notin Range(exclude_repos))
        ELSE candidate_repos

\* Lines 427-448: owned and included repositories, without the excluded.
ReposToProcess(user_owned_repos) ==
    LET candidate_repos == user_owned_repos \o include_repos
        unique_candidate_repos == SortedStrs(Range(candidate_repos))
    IN  IF exclude_repos # <<>>
        THEN SelectSeq(unique_candidate_repos, LAMBDA repo : repo \notin Range(exclude_repos))
        ELSE unique_candidate_repos

\* Lines 424-451: fetch_user_repos has returned.
ResolveRepos(S, user_owned_repos) ==
    LET repos_to_process == ReposToProcess(user_owned_repos)
        returned == [S EXCEPT !.page = 0]
    IN  IF repos_to_process = <<>> THEN Exit(returned, 0)
        ELSE TrendNext([returned EXCEPT !.repos_to_process = repos_to_process, !.idx = 1])

\* The list a page-level fetch returns goes to its caller.
FetchReturned(S, events) ==
    IF cmd = "account-trend"
    THEN TrendNext([S EXCEPT
            !.page = 0,
            !.all_star_events = @ \o
                [i \in DOMAIN events |->
                    [repo_name |-> S.repos_to_process[S.idx],
                     starred_at |-> events[i]["starred_at"]]],
            !.idx = @ + 1])
    ELSE EnrichEvents([S EXCEPT !.page = 0], events)

\* --------------------------------------------------- the page-level fetches

\* The observation of a failed request: what failed, the items a page-level
\* fetch held by then, and whether SystemExit was raised.
Failed(S, kind, where, target, had, raised) ==
    [S EXCEPT !.failure = [kind |-> kind, where |-> where, target |-> target,
                           page |-> S.page, had |-> had, raised |-> raised],
              !.last = [NoResponse EXCEPT !.where = where],
              !.slept = <<>>]

\* A rate-limit answer is waited out and is no failure of the fetch.
Observed(S, response, where, target, had) ==
    LET noted == IF response.status_code = 200 \/ FailureKind(response) = "rate_limit"
                 THEN S
                 ELSE Failed(S, FailureKind(response), where, target, had,
                             HandleApiError(response) = "exit")
    IN  IF response.status_code = 200
        THEN [noted EXCEPT !.last = response @@ [where |-> where], !.slept = <<>>]
        ELSE IF HandleApiError(response) = "retry"
        THEN [noted EXCEPT !.last = response @@ [where |-> where],
                           !.slept = <<WaitTime(response)>>]
        ELSE noted

\* fetch_user_repos, lines 59-85, on the response to the request of a page.
UserReposResponse(S, response) ==
    LET error_action == HandleApiError(response)
        batch == response.json
        repos == S.repos \o
                 [i \in DOMAIN SelectSeq(batch, LAMBDA repo : repo.owner.login = username) |->
                     SelectSeq(batch, LAMBDA repo : repo.owner.login = username)[i].full_name]
        seen == Observed(S, response, "repos", username, S.repos)
    IN  IF error_action = "exit" THEN Exit(seen, 1)
        ELSE IF error_action = "retry" THEN seen
        ELSE IF batch = <<>> THEN ResolveRepos(seen, S.repos)
        ELSE IF response.next
        THEN [seen EXCEPT !.repos = repos, !.page = @ + 1]
        ELSE ResolveRepos([seen EXCEPT !.repos = repos], repos)

\* fetch_user_repos, lines 63-65: the request failed.
UserReposRequestError(S) ==
    Exit(Failed(S, "transport", "repos", username, S.repos, TRUE), 1)

\* Mutant of StargazersResponse: after a rate limit the fetch gives up and
\* returns what it has.
StargazersResponseGivesUp(S, response) ==
    LET error_action == HandleApiError(response)
        batch == response.json
        users_with_starred_at == S.users_with_starred_at \o
            [i \in DOMAIN batch |->
                [login |-> batch[i].user.login, starred_at |-> batch[i].at,
                 user_details |-> batch[i].user]]
        seen == Observed(S, response, "stargazers", CurrentRepo(S), S.users_with_starred_at)
        got == [seen EXCEPT !.users_with_starred_at = users_with_starred_at,
                            !.n_items = @ + Len(batch)]
    IN  IF error_action = "exit" THEN Exit(seen, 1)
        ELSE IF error_action = "retry" THEN FetchReturned(seen, S.users_with_starred_at)
        ELSE IF batch = <<>> THEN FetchReturned(seen, S.users_with_starred_at)
        ELSE IF response.next THEN [got EXCEPT !.page = @ + 1]
        ELSE FetchReturned(got, users_with_starred_at)

\* fetch_stargazers, lines 102-122, on the response to the request of a page.
StargazersResponse(S, response) ==
    LET error_action == HandleApiError(response)
        batch == response.json
        users_with_starred_at == S.users_with_starred_at \o
            [i \in DOMAIN batch |->
                [login |-> batch[i].user.login, starred_at |-> batch[i].at,
                 user_details |-> batch[i].user]]
        seen == Observed(S, response, "stargazers", CurrentRepo(S), S.users_with_starred_at)
        got == [seen EXCEPT !.users_with_starred_at = users_with_starred_at,
                            !.n_items = @ + Len(batch)]
    IN  IF error_action = "exit" THEN Exit(seen, 1)
        ELSE IF error_action = "retry" THEN seen
        ELSE IF batch = <<>> THEN FetchReturned(seen, S.users_with_starred_at)
        ELSE IF response.next THEN [got EXCEPT !.page = @ + 1]
        ELSE FetchReturned(got, users_with_starred_at)

\* Mutant of StargazersRequestError: SystemExit as in fetch_user_repos.
StargazersRequestErrorRaises(S) ==
    Exit(Failed(S, "transport", "stargazers", CurrentRepo(S),
                S.users_with_starred_at, TRUE), 1)

\* fetch_stargazers, lines 97-100: the request failed.
StargazersRequestError(S) ==
    FetchReturned(Failed(S, "transport", "stargazers", CurrentRepo(S),
                         S.users_with_starred_at, FALSE),
                  S.users_with_starred_at)

\* Mutant of ForkersResponse: the "next" link is not looked at, the
\* following page is requested after every page that is not empty.
ForkersResponseIgnoresNext(S, response) ==
    LET error_action == HandleApiError(response)
        batch == response.json
        fork_details == S.fork_details \o
            [i \in DOMAIN batch |->
                [login |-> batch[i].user.login, forked_at |-> batch[i].at,
                 user_details |-> batch[i].user]]
        seen == Observed(S, response, "forkers", CurrentRepo(S), S.fork_details)
        got == [seen EXCEPT !.fork_details = fork_details, !.n_items = @ + Len(batch)]
    IN  IF error_action = "exit" THEN Exit(seen, 1)
        ELSE IF error_action = "retry" THEN seen
        ELSE IF batch = <<>> THEN FetchReturned(seen, S.fork_details)
        ELSE [got EXCEPT !.page = @ + 1]

\* fetch_forkers, lines 138-161, on the response to the request of a page.
ForkersResponse(S, response) ==
    LET error_action == HandleApiError(response)
        batch == response.json
        fork_details == S.fork_details \o
            [i \in DOMAIN batch |->
                [login |-> batch[i].user.login, forked_at |-> batch[i].at,
                 user_details |-> batch[i].user]]
        seen == Observed(S, response, "forkers", CurrentRepo(S), S.fork_details)
        got == [seen EXCEPT !.fork_details = fork_details, !.n_items = @ + Len(batch)]
    IN  IF error_action = "exit" THEN Exit(seen, 1)
        ELSE IF error_action = "retry" THEN seen
        ELSE IF batch = <<>> THEN FetchReturned(seen, S.fork_details)
        ELSE IF response.next THEN [got EXCEPT !.page = @ + 1]
        ELSE FetchReturned(got, fork_details)

\* fetch_forkers, lines 134-136: the request failed.
ForkersRequestError(S) ==
    FetchReturned(Failed(S, "transport", "forkers", CurrentRepo(S), S.fork_details, FALSE),
                  S.fork_details)

\* ------------------------------------------------------ fetch_user_metadata

\* The profile users/{username} answers with.
ApiProfile(login) == FullProfile(login, "Earth")

\* Mutant of UserMetadataResponse: the sleep before a retry doubles with
\* every attempt, from 60 seconds.
UserMetadataResponseBackoff(S, response) ==
    LET user_event == S.users_info[S.user_i]
        error_action == HandleApiError(response)
        max_retries == 3
        seen == Observed(S, response, "user", <<user_event["login"]>>, <<>>)
        waited == [seen EXCEPT !.slept = Append(@, 60 * 2 ^ S.retries), !.retries = @ + 1]
    IN  IF error_action = "exit" THEN Exit(seen, 1)
        ELSE IF error_action = "retry"
        THEN IF waited.retries < max_retries
             THEN waited
             ELSE MetadataNext([waited EXCEPT
                     !.lookups = Append(@, "rate_limited"),
                     !.user_i = @ + 1])
        ELSE IF response.status_code = 200
        THEN MetadataNext([seen EXCEPT
                !.data = Append(@, Details(response.json, user_event)),
                !.lookups = Append(@, "fetched"),
                !.user_i = @ + 1])
        ELSE MetadataNext([seen EXCEPT
                !.lookups = Append(@, "failed"),
                !.user_i = @ + 1])

\* Mutant of UserMetadataResponse: when the retries are used up the run is
\* given up (SystemExit) and the actor is not just skipped.
UserMetadataResponseGivesUp(S, response) ==
    LET user_event == S.users_info[S.user_i]
        error_action == HandleApiError(response)
        max_retries == 3
        seen == Observed(S, response, "user", <<user_event["login"]>>, <<>>)
        waited == [seen EXCEPT !.slept = Append(@, 60), !.retries = @ + 1]
    IN  IF error_action = "exit" THEN Exit(seen, 1)
        ELSE IF error_action = "retry"
        THEN IF waited.retries < max_retries
             THEN waited
             ELSE Exit(waited, 1)
        ELSE IF response.status_code = 200
        THEN MetadataNext([seen EXCEPT
                !.data = Append(@, Details(response.json, user_event)),
                !.lookups = Append(@, "fetched"),
                !.user_i = @ + 1])
        ELSE MetadataNext([seen EXCEPT
                !.lookups = Append(@, "failed"),
                !.user_i = @ + 1])

\* Lines 215-246, on the response to the lookup of the actor of event
\* S.user_i.
UserMetadataResponse(S, response) ==
    LET user_event == S.users_info[S.user_i]
        error_action == HandleApiError(response)
        max_retries == 3
        seen == Observed(S, response, "user", <<user_event["login"]>>, <<>>)
        waited == [seen EXCEPT !.slept = Append(@, 60), !.retries = @ + 1]
    IN  IF error_action = "exit" THEN Exit(seen, 1)
        ELSE IF error_action = "retry"
        THEN IF waited.retries < max_retries
             THEN waited
             ELSE MetadataNext([waited EXCEPT
                     !.lookups = Append(@, "rate_limited"),
                     !.user_i = @ + 1])
        ELSE IF response.status_code = 200
        THEN MetadataNext([seen EXCEPT
                !.data = Append(@, Details(response.json, user_event)),
                !.lookups = Append(@, "fetched"),
                !.user_i = @ + 1])
        ELSE MetadataNext([seen EXCEPT
                !.lookups = Append(@, "failed"),
                !.user_i = @ + 1])

\* Lines 211-213: the request failed, the actor is skipped.
UserMetadataRequestError(S) ==
    LET user_event == S.users_info[S.user_i]
    IN  MetadataNext(Failed([S EXCEPT !.lookups = Append(@, "failed"),
                                      !.user_i = @ + 1],
                            "transport", "user", <<user_event["login"]>>, <<>>, FALSE))

\* ------------------------------------------------------- the files to plot

\* The events fetch_stargazers returned for repo, as account-trend keeps them.
EventsOf(repo, items) ==
    [i \in DOMAIN items |-> [repo_name |-> repo, starred_at |-> items[i].at]]

\* The lists all_star_events can be after the loop over repos: at most n
\* events, those of each repository in the order the API lists them.
RECURSIVE Collected(_, _)
Collected(repos, n) ==
    IF repos = <<>> THEN {<<>>}
    ELSE UNION {{EventsOf(repos[1], items) \o rest :
                    rest \in Collected(Tail(repos), n - Len(items))} :
                items \in SeqsUpTo(ApiItems("account-trend"), n)}

\* What a run of account-trend that got to its end left on disk: the table
\* it built and the csv summarize_and_save wrote from it.
Export(repos_to_process, all_star_events) ==
    LET final_df == AccountTrendTable(repos_to_process, all_star_events)
        saved == SummarizeAndSave(StartState, final_df.rows, final_df.columns,
                                  USERNAME, ACCOUNT_STARS_BY_DAY, "star_date")
    IN  [table |-> final_df.rows, csv |-> ToCsv(saved.files[1])]

TrendExports(repos) ==
    {Export(repos, events) : events \in Collected(repos, MaxEvents) \ {<<>>}}

\* The csv without the columns in dropped.
WithoutColumns(csv, dropped) ==
    [csv EXCEPT
        !.fixed = SelectSeq(@, LAMBDA col : col \notin dropped),
        !.lines = [k \in DOMAIN @ |->
                     [col \in DOMAIN @[k] \ dropped |-> @[k][col]]]]

\* The csv with a first cell of column col that is neither a number nor a date.
Garbled(csv, col) == [csv EXCEPT !.lines[1][col] = <<"x">>]

STARS_CSV == <<"s", "t", "a", "r", "s">> \o CSV
CUSTOM_TITLE == <<"m", "y">>

\* The command lines of plot for a file account-trend wrote: the file as
\* it is; and, when broken is asked for, also the file under another name,
\* with --title, with some of the three trend columns taken out, and with
\* a cell that does not parse.
PlotVariants(e, broken) ==
    {[file |-> e.csv, title |-> <<>>, exported |-> e.table]}
    \cup
    (IF ~broken THEN {}
     ELSE {[file |-> e.csv, title |-> CUSTOM_TITLE, exported |-> e.table],
           [file |-> [e.csv EXCEPT !.name = STARS_CSV], title |-> <<>>,
            exported |-> e.table]}
          \cup
          {[file |-> WithoutColumns(e.csv, dropped), title |-> <<>>, exported |-> <<>>] :
              dropped \in SUBSET Range(TrendColumns) \ {{}}}
          \cup
          {[file |-> Garbled(e.csv, col), title |-> <<>>, exported |-> <<>>] :
              col \in Range(TrendColumns)})

\* The command lines of plot: the files written for one repository, in
\* every variant, and those written for two whose column names collide.
PlotChoices ==
    UNION {UNION {PlotVariants(e, Len(repos) = 1) : e \in TrendExports(repos)} :
              repos \in {<<REPO_UAB>>, <<REPO_UAB, REPO_U_AB>>}}

\* ------------------------------------------------------------ specification

Init ==
    /\ cmd \in {"account-trend", "repos", "forkers", "plot"}
    /\ username = USERNAME
    /\ \E choice \in (IF cmd = "account-trend" THEN TrendChoices
                      ELSE {<<<<>>, <<>>, FALSE>>}) :
          /\ include_repos = choice[1]
          /\ exclude_repos = choice[2]
          /\ line_chart = choice[3]
    /\ repositories \in (IF cmd \in {"repos", "forkers"} THEN RepositoriesChoices(cmd)
                         ELSE {<<>>})
    /\ \E choice \in (IF cmd = "plot" THEN PlotChoices
                      ELSE {[file |-> NoFile, title |-> <<>>, exported |-> <<>>]}) :
          /\ file = choice.file
          /\ title_option = choice.title
          /\ exported = choice.exported
    /\ st = StartState
    /\ answer = NoResponse
    /\ handled = NotHandled

\* The command runs up to its first request.
Invoke ==
    /\ st.pc = "start"
    /\ st' = IF cmd = "account-trend"
             THEN [st EXCEPT !.pc = "fetch_user_repos", !.page = 1]
             ELSE IF cmd = "plot" THEN PlotCommand(st)
             ELSE ReposNext([st EXCEPT !.idx = 1])
    /\ UNCHANGED <<args, probe>>

FetchUserRepos ==
    /\ st.pc = "fetch_user_repos"
    /\ \/ \E response \in OkResponses(RepoPages(st.repos), st.page < MaxPages) \cup ErrorResponses :
            st' = UserReposResponse(st, response)
       \/ st' = UserReposRequestError(st)
    /\ UNCHANGED <<args, probe>>

FetchStargazers ==
    /\ st.pc = "fetch_stargazers"
    /\ \/ \E response \in OkResponses(ItemPages(st),
                                      st.page < MaxPages) \cup ErrorResponses :
            st' = StargazersResponse(st, response)
       \/ st' = StargazersRequestError(st)
    /\ UNCHANGED <<args, probe>>

FetchForkers ==
    /\ st.pc = "fetch_forkers"
    /\ \/ \E response \in OkResponses(ItemPages(st),
                                      st.page < MaxPages) \cup ErrorResponses :
            st' = ForkersResponse(st, response)
       \/ st' = ForkersRequestError(st)
    /\ UNCHANGED <<args, probe>>

FetchUserMetadata ==
    /\ st.pc = "fetch_user_metadata"
    /\ \/ \E response \in
              {[status_code |-> 200, rate_limit |-> FALSE, headers |-> {}, now |-> 0,
                json |-> ApiProfile(st.users_info[st.user_i]["login"]), next |-> FALSE]}
              \cup ErrorResponses :
            st' = UserMetadataResponse(st, response)
       \/ st' = UserMetadataRequestError(st)
    /\ UNCHANGED <<args, probe>>

Next ==
    \/ Invoke
    \/ FetchUserRepos
    \/ FetchStargazers
    \/ FetchForkers
    \/ FetchUserMetadata

Spec == Init /\ [][Next]_vars

\* ------------------------------------------- _handle_api_error on its own

\* The clock readings and reset times of the responses handled.
MaxClock == 4

\* The responses _handle_api_error can be given: any status, a body with or
\* without the words "rate limit", with or without the reset header.
Answers ==
    {[where |-> "none", status_code |-> c, rate_limit |-> r, headers |-> h, now |-> n,
      json |-> <<>>, next |-> FALSE] :
        c \in {200, 403, 404, 500}, r \in BOOLEAN,
        h \in {{}} \cup {{<<X_RATELIMIT_RESET, reset_time>>} : reset_time \in 0 .. MaxClock},
        n \in 0 .. MaxClock}

InitWait ==
    /\ cmd = "repos"
    /\ username = USERNAME
    /\ include_repos = <<>>
    /\ exclude_repos = <<>>
    /\ line_chart = FALSE
    /\ repositories = <<>>
    /\ file = NoFile
    /\ title_option = <<>>
    /\ exported = <<>>
    /\ st = StartState
    /\ answer \in Answers
    /\ handled = NotHandled

\* _handle_api_error(answer, context_message): what it returns or raises,
\* and the time.sleep call it makes.
HandleAnswer ==
    /\ handled = NotHandled
    /\ handled' = [error_action |-> HandleApiError(answer),
                   slept |-> IF HandleApiError(answer) = "retry"
                             THEN <<WaitTime(answer)>> ELSE <<>>]
    /\ UNCHANGED <<args, st, answer>>

NextWait == HandleAnswer

SpecWait == InitWait /\ [][NextWait]_vars

\* =================================================================== claims

\* The table account-trend built, and the rows of the file it wrote.
TrendBuilt == cmd = "account-trend" /\ st.final_df.rows # <<>>
TrendRows == st.final_df.rows
TrendFileRows == IF st.files = <<>> THEN <<>> ELSE st.files[1].rows
TrendTables == {TrendRows, TrendFileRows}

\* The per-repository columns of the table, by what they hold.
NewColumns == {col \in Range(st.final_df.columns) : EndsWith(col, NEW_STARS)}
CumulativeColumns == Range(st.final_df.columns) \ NewColumns

\* The events collected for repository repo, up to day D and on day D.
EventsUpTo(repo, D) ==
    Cardinality({i \in DOMAIN st.all_star_events :
        /\ st.all_star_events[i].repo_name = repo
        /\ st.all_star_events[i].starred_at < (D + 1) * SlotsPerDay})
EventsOn(repo, D) ==
    Cardinality({i \in DOMAIN st.all_star_events :
        /\ st.all_star_events[i].repo_name = repo
        /\ st.all_star_events[i].starred_at >= D * SlotsPerDay
        /\ st.all_star_events[i].starred_at < (D + 1) * SlotsPerDay})
EventDays ==
    {d \in 0 .. MaxDay : \E i \in DOMAIN st.all_star_events :
        /\ st.all_star_events[i].starred_at >= d * SlotsPerDay
        /\ st.all_star_events[i].starred_at < (d + 1) * SlotsPerDay}

NewUpTo(rows, D) ==
    LET sel == SelectSeq(rows, LAMBDA r : r.star_date <= D)
    IN  SumSeq([j \in DOMAIN sel |-> sel[j].total_new_stars_on_day])

\* C1: in the table account-trend produces (as built and as written), the
\* global cumulative count of every date D is the sum of the global new
\* counts of the dates of the axis up to D.
C1_GlobalCumulativeIsSumOfNew ==
    TrendBuilt =>
        \A rows \in TrendTables : \A k \in DOMAIN rows :
            rows[k].total_cumulative_stars_up_to_day = NewUpTo(rows, rows[k].star_date)

\* C1 witness: a table of three days at least was written, with a day
\* without stars after which the cumulative count still grows.
C1_Witness ==
    /\ TrendBuilt
    /\ st.files # <<>>
    /\ \E k \in DOMAIN TrendRows :
          /\ k > 1 /\ k < Len(TrendRows)
          /\ TrendRows[k].total_new_stars_on_day = 0
          /\ TrendRows[k + 1].total_cumulative_stars_up_to_day
                > TrendRows[k].total_cumulative_stars_up_to_day

\* C2 (as claimed): for every processed repository with a star event and
\* every date D of the axis, the repository's cumulative column holds the
\* number of its events dated up to D and its new-stars column the number
\* of its events dated D.
C2_PerRepositoryColumns ==
    TrendBuilt =>
        \A repo \in Range(st.repos_to_process) :
            (\E i \in DOMAIN st.all_star_events : st.all_star_events[i].repo_name = repo) =>
                \A k \in DOMAIN TrendRows :
                    LET row == TrendRows[k]
                        prefix == Replace(repo, "/", "_")
                    IN  /\ prefix \o CUMULATIVE_STARS \in DOMAIN row.c
                        /\ prefix \o NEW_STARS \in DOMAIN row.c
                        /\ row.c[prefix \o CUMULATIVE_STARS] = EventsUpTo(repo, row.star_date)
                        /\ row.c[prefix \o NEW_STARS] = EventsOn(repo, row.star_date)

\* C3: once events were collected, the table has exactly one row for every
\* day from the first event day to the last, and a day without any event
\* has total_new_stars_on_day = 0.
C3_DateAxisComplete ==
    TrendBuilt =>
        \A rows \in TrendTables :
            LET lo == CHOOSE d \in EventDays : \A e \in EventDays : d <= e
                hi == CHOOSE d \in EventDays : \A e \in EventDays : d >= e
            IN  /\ {rows[k].star_date : k \in DOMAIN rows} = lo .. hi
                /\ Len(rows) = hi - lo + 1
                /\ \A k \in DOMAIN rows :
                      rows[k].star_date \notin EventDays =>
                          rows[k].total_new_stars_on_day = 0

\* C3 witness: events on two days with a day between them on which no
\* repository was starred; that day has its row.
C3_Witness ==
    /\ TrendBuilt
    /\ st.files # <<>>
    /\ \E d \in 1 .. MaxDay :
          /\ d \notin EventDays /\ d - 1 \in EventDays /\ d + 1 \in EventDays
          /\ \E k \in DOMAIN TrendFileRows : TrendFileRows[k].star_date = d

\* C4 (as claimed): in every row the per-repository new-stars columns sum
\* to total_new_stars_on_day.
C4_NewColumnsSumToTotal ==
    TrendBuilt =>
        \A k \in DOMAIN TrendRows :
            LET cols == SortedStrs(NewColumns)
            IN  SumSeq([j \in DOMAIN cols |-> TrendRows[k].c[cols[j]]])
                    = TrendRows[k].total_new_stars_on_day

\* C5: in every row, every per-repository cumulative value is at most the
\* global cumulative value of the row.
C5_RepoCumulativeAtMostGlobal ==
    TrendBuilt =>
        \A rows \in TrendTables : \A k \in DOMAIN rows : \A col \in CumulativeColumns :
            rows[k].c[col] <= rows[k].total_cumulative_stars_up_to_day

\* C5 witness: two repositories have cumulative columns, and one of them is
\* strictly below the global value in some row.
C5_Witness ==
    /\ TrendBuilt
    /\ Cardinality(CumulativeColumns) >= 2
    /\ \E k \in DOMAIN TrendRows : \E col \in CumulativeColumns :
          /\ TrendRows[k].c[col] > 0
          /\ TrendRows[k].c[col] < TrendRows[k].total_cumulative_stars_up_to_day

\* C6: every per-repository cumulative column is non-decreasing along the
\* axis read in ascending date order.
C6_RepoCumulativeNonDecreasing ==
    TrendBuilt =>
        \A rows \in TrendTables : \A i, j \in DOMAIN rows : \A col \in CumulativeColumns :
            rows[i].star_date <= rows[j].star_date => rows[i].c[col] <= rows[j].c[col]

\* C6 witness: a column with leading zeros before the repository's first
\* event, and one carried forward over a day without events of its own.
C6_Witness ==
    /\ TrendBuilt
    /\ Len(TrendRows) >= 3
    /\ \E col \in CumulativeColumns : TrendRows[1].c[col] = 0 /\ TrendRows[2].c[col] = 0
                                      /\ TrendRows[3].c[col] > 0
    /\ \E col \in CumulativeColumns : TrendRows[1].c[col] > 0
                                      /\ TrendRows[2].c[col] = TrendRows[1].c[col]

\* The repositories account-trend is to fetch: those the API listed as owned
\* by the user or given with --include-repo, less those given with
\* --exclude-repo.
ExpectedRepos ==
    (Range(st.repos) \cup Range(include_repos)) \ Range(exclude_repos)

\* The run ended by the return of the command or after its output, not by a
\* SystemExit raised on a failed request.
RanToEnd == st.pc = "done" /\ ~st.failure.raised

\* C7: account-trend fetches no repository outside (owned + included -
\* excluded) and none twice, and a run that goes through all of them has
\* fetched each of them exactly once.
C7_FetchedRepositories ==
    cmd = "account-trend" =>
        /\ \A i \in DOMAIN st.calls :
              /\ st.calls[i] \in ExpectedRepos
              /\ st.calls[i] \notin Range(exclude_repos)
              /\ \A j \in DOMAIN st.calls : st.calls[i] = st.calls[j] => i = j
        /\ RanToEnd => Range(st.calls) = ExpectedRepos

\* C7 witness: a finished run in which one repository is owned and
\* included, and another is included and excluded.
C7_Witness ==
    /\ cmd = "account-trend"
    /\ RanToEnd
    /\ \E r \in Range(st.repos) \cap Range(include_repos) : r \in Range(st.calls)
    /\ Range(include_repos) \cap Range(exclude_repos) # {}

\* C8: when account-trend is left with no repository, or collects no star
\* event, it writes no file, draws no chart and ends with exit code 0.
C8_NothingToReport ==
    (cmd = "account-trend" /\ RanToEnd /\ st.all_star_events = <<>>) =>
        /\ st.files = <<>>
        /\ st.charts = <<>>
        /\ st.exit_code = 0

\* C8 witness: --line-chart was given, a repository was fetched, and no
\* star event came back.
C8_Witness ==
    /\ cmd = "account-trend"
    /\ RanToEnd
    /\ line_chart
    /\ st.calls # <<>>
    /\ st.all_star_events = <<>>

\* C8, the other case: nothing is left after the exclusions.
C8_WitnessNoRepository ==
    /\ cmd = "account-trend"
    /\ RanToEnd
    /\ st.repos # <<>>
    /\ ExpectedRepos = {}

PageFetches == {"repos", "stargazers", "forkers"}

\* C9: a 404 answer to a page request ends the run at once with a non-zero
\* exit code and without any output file, whatever the command and however
\* many repositories were fetched before.
C9_NotFoundIsFatal ==
    (st.failure.kind = "not_found" /\ st.failure.where \in PageFetches) =>
        /\ st.pc = "done"
        /\ st.exit_code # 0
        /\ st.files = <<>>

\* C9 witness: the second repository of a repos run answers 404 after the
\* first one was fetched and enriched.
C9_Witness ==
    /\ cmd = "repos"
    /\ st.failure.kind = "not_found"
    /\ st.failure.where = "stargazers"
    /\ st.idx = 2
    /\ st.all_metadata # <<>>

\* The events of the failed fetch that reached its caller: in account-trend
\* the collected events of the repository, in repos and forkers the events
\* being enriched while the loop is at the repository.
ReachedCaller ==
    IF cmd = "account-trend"
    THEN LET got == SelectSeq(st.all_star_events,
                              LAMBDA e : e.repo_name = st.failure.target)
         IN  [i \in DOMAIN got |-> got[i].starred_at]
    ELSE IF st.idx \in DOMAIN repositories /\ repositories[st.idx] = st.failure.target
    THEN [i \in DOMAIN st.users_info |-> st.users_info[i][TimestampKey]]
    ELSE <<>>

FailedFetchHad == [i \in DOMAIN st.failure.had |-> st.failure.had[i][TimestampKey]]

ItemFetchFailed ==
    /\ st.failure.where \in {"stargazers", "forkers"}
    /\ st.failure.kind \in {"not_found", "status", "transport"}

\* C10 (as claimed): after any page failure of a stargazers or forkers fetch
\* that is not a rate limit, the fetch is aborted: no event of the pages
\* fetched before reaches the caller or a file.
C10_EveryPageFailureAborts ==
    (ItemFetchFailed /\ st.failure.had # <<>>) =>
        /\ ReachedCaller = <<>>
        /\ st.files = <<>>

\* C10 (amended): a non-success status that is not a rate limit, on any
\* page, ends the run with exit code 1 and no file; a request that fails at
\* the transport level ends the fetch only, and the events of the pages
\* fetched before are returned to the caller.
C10_StatusAbortsTransportReturns ==
    ItemFetchFailed =>
        IF st.failure.kind = "transport"
        THEN /\ ~st.failure.raised
             /\ (cmd = "account-trend" \/
                 (st.idx \in DOMAIN repositories /\ repositories[st.idx] = st.failure.target))
                    => ReachedCaller = FailedFetchHad
        ELSE /\ st.failure.raised
             /\ st.pc = "done"
             /\ st.exit_code = 1
             /\ st.files = <<>>

\* C10 witness: the second page of a fetch failed at the transport level and
\* the events of the first page were written to the file.
C10_Witness ==
    /\ ItemFetchFailed
    /\ st.failure.kind = "transport"
    /\ st.failure.page = 2
    /\ st.failure.had # <<>>
    /\ ReachedCaller = FailedFetchHad
    /\ st.files # <<>>

\* C10 witness of the other case: a 500 on the second page.
C10_WitnessStatus ==
    /\ ItemFetchFailed
    /\ st.failure.kind = "status"
    /\ st.failure.page = 2
    /\ st.failure.had # <<>>
    /\ st.pc = "done"

\* ------------------------------------------------- per-actor lookups

Enriching == cmd \in {"repos", "forkers"}

\* The events of the running (or last) fetch_user_metadata call that have
\* been dealt with, and those of them that got a record.
Handled == DOMAIN st.lookups
Kept == {i \in Handled : st.lookups[i] \in {"prefetched", "fetched"}}

\* The record of a kept event: the records are appended in event order.
RecordOf(i) == st.data[Cardinality({j \in Kept : j <= i})]

\* C11 (as claimed): a profile lookup that fails with anything but a rate
\* limit (a 404, a 500, a failed request) never ends the run: only that
\* actor's record is dropped.
C11_LookupFailureDropsOnlyThatActor ==
    (st.failure.where = "user" /\ st.failure.kind \in {"not_found", "status", "transport"}) =>
        /\ ~st.failure.raised
        /\ st.exit_code = 0

\* C12: a profile lookup is requested at most three times; an actor whose
\* lookup was answered with a rate limit three times is skipped, the run is
\* not ended by it (it goes on, and ends with a non-zero code only when a
\* later request fails), and the records returned are exactly those of the
\* other actors, in order.
C12_RateLimitedActorSkipped ==
    Enriching =>
        /\ st.pc = "fetch_user_metadata" => st.retries + 1 <= 3
        /\ st.retries <= 3
        /\ st.retries = 3 =>
              /\ st.pc # "fetch_user_metadata"
              /\ \E i \in Handled :
                    /\ st.lookups[i] = "rate_limited"
                    /\ \A j \in Handled : j > i => st.lookups[j] = "prefetched"
              /\ st.exit_code # 0 => st.failure.raised
              /\ (st.pc = "done" /\ st.exit_code = 0) =>
                    (st.all_metadata # <<>>) = (st.files # <<>>)
        /\ Len(st.data) = Cardinality(Kept)
        /\ \A i \in Kept :
              /\ RecordOf(i).login = st.users_info[i].login
              /\ RecordOf(i)[TimestampKey] = st.users_info[i][TimestampKey]

\* C12 witness: three actors, the second one rate-limited on each of its
\* three lookups; the file holds the records of the two others.
C12_Witness ==
    /\ Enriching
    /\ st.pc = "done"
    /\ st.exit_code = 0
    /\ st.lookups = <<"fetched", "rate_limited", "fetched">>
    /\ Len(st.files) = 1
    /\ Len(st.files[1].rows) = 2

\* C12, the run's end right after the third rate-limit answer.
C12_WitnessLastActor ==
    /\ Enriching
    /\ st.retries = 3
    /\ Len(st.lookups) = 3
    /\ Len(st.data) = 2

\* ------------------------------------------------------ page-level fetches

\* The request a run at pc waits on, by the fetch that sent it.
FetchOf(where) ==
    CASE where = "repos" -> "fetch_user_repos"
      [] where = "stargazers" -> "fetch_stargazers"
      [] where = "forkers" -> "fetch_forkers"
      [] OTHER -> "none"

\* The answer the fetch last went on from was a rate limit on a page.
RateLimitedPage(S) ==
    /\ S.last.where \in PageFetches
    /\ S.last.status_code = 403
    /\ S.last.rate_limit

\* C13: after a rate-limit answer to a page request, whatever came before
\* (another rate-limit answer included), the fetch waits on the same page of
\* the same repository with the items it had: the page is neither skipped
\* nor read twice, the fetch has not returned and the run has not ended.
C13_RateLimitRetriesSamePage ==
    [][(st' # st /\ RateLimitedPage(st')) =>
          /\ st'.pc = FetchOf(st'.last.where)
          /\ st'.pc = st.pc
          /\ st'.page = st.page
          /\ st'.idx = st.idx
          /\ st'.calls = st.calls
          /\ st'.repos = st.repos
          /\ st'.users_with_starred_at = st.users_with_starred_at
          /\ st'.fork_details = st.fork_details
          /\ st'.all_star_events = st.all_star_events
          /\ st'.users_info = st.users_info
          /\ st'.exit_code = 0]_vars

\* C13 witness: the second page of a stargazers fetch was answered with a
\* rate limit, and the fetch waits on page 2 with the items of page 1.
C13_Witness ==
    /\ RateLimitedPage(st)
    /\ st.pc = "fetch_stargazers"
    /\ st.page = 2
    /\ st.users_with_starred_at # <<>>
    /\ st.slept # <<>>

\* The list a page-level fetch holds, and what the page in answer r adds to
\* it.
Fetched(S, where) ==
    CASE where = "repos" -> S.repos
      [] where = "stargazers" -> S.users_with_starred_at
      [] where = "forkers" -> S.fork_details
      [] OTHER -> <<>>
PageItems(r) ==
    CASE r.where = "repos" ->
            LET owned == SelectSeq(r.json, LAMBDA repo : repo.owner.login = username)
            IN  [i \in DOMAIN owned |-> owned[i].full_name]
      [] r.where = "stargazers" ->
            [i \in DOMAIN r.json |->
                [login |-> r.json[i].user.login, starred_at |-> r.json[i].at,
                 user_details |-> r.json[i].user]]
      [] r.where = "forkers" ->
            [i \in DOMAIN r.json |->
                [login |-> r.json[i].user.login, forked_at |-> r.json[i].at,
                 user_details |-> r.json[i].user]]
      [] OTHER -> <<>>

\* The step from S to T is the handling of a successful answer to a page
\* request.
PageAnswered(S, T) ==
    /\ T # S
    /\ T.last.where \in PageFetches
    /\ T.last.status_code = 200
    /\ S.pc = FetchOf(T.last.where)

\* After the step the fetch waits on the following page.
NextPageRequested(S, T) ==
    /\ T.pc = S.pc
    /\ T.idx = S.idx
    /\ T.page = S.page + 1

\* The fetch has returned list to its caller: account-trend adds the events
\* to those it collects, repos and forkers hand them to fetch_user_metadata,
\* and the repositories of the user are those account-trend goes on with.
ReturnedToCaller(S, T, list) ==
    CASE T.last.where = "repos" -> T.repos = list
      [] cmd = "account-trend" ->
            T.all_star_events = S.all_star_events \o
                [i \in DOMAIN list |->
                    [repo_name |-> S.repos_to_process[S.idx],
                     starred_at |-> list[i].starred_at]]
      [] OTHER ->
            T.users_info = [i \in DOMAIN list |-> list[i] @@ [repo |-> repositories[S.idx]]]

\* C14 (as claimed): the following page is requested after every page that
\* is not empty, and the fetch stops at the first empty page.
C14_NextPageWhileNotEmpty ==
    [][PageAnswered(st, st') =>
          IF st'.last.json # <<>> THEN NextPageRequested(st, st')
          ELSE ~NextPageRequested(st, st')]_vars

\* C14 (amended): the following page is requested exactly when the page is
\* not empty and the answer carries a "next" link, and the list then grows
\* by the items of the page; otherwise the fetch returns, and the list it
\* returns is the list it held followed by the items of this last page.
C14_NextPageOnNextLink ==
    [][PageAnswered(st, st') =>
          LET r == st'.last
              list == Fetched(st, r.where) \o PageItems(r)
          IN  IF r.json # <<>> /\ r.next
              THEN /\ NextPageRequested(st, st')
                   /\ Fetched(st', r.where) = list
              ELSE /\ ~NextPageRequested(st, st')
                   /\ ReturnedToCaller(st, st', list)]_vars

\* C14 witness: a forkers fetch returned after a second page that was not
\* empty and had no "next" link; the forks of both pages were written.
C14_Witness ==
    /\ cmd = "forkers"
    /\ st.last.where = "forkers"
    /\ st.last.status_code = 200
    /\ st.last.json # <<>>
    /\ ~st.last.next
    /\ Len(st.fork_details) > Len(st.last.json)
    /\ st.pc = "done"
    /\ st.files # <<>>
    /\ Len(st.files[1].rows) = Len(st.fork_details)

\* ------------------------------------------------------- the rate-limit wait

\* The reset header of the answer handled, when it has one.
HasReset == \E h \in answer.headers : h[1] = "X-RateLimit-Reset"
ResetTime == (CHOOSE h \in answer.headers : h[1] = "X-RateLimit-Reset")[2]

\* C15: a 403 answer whose body indicates a rate limit is waited out with
\* one sleep and then retried; the sleep is reset - now when the reset
\* header is present and that is at least 1, is 1 when the header is present
\* and the reset time is not in the future, and is 60 when the header is
\* absent; it is never below 1.
C15_RateLimitWait ==
    (handled # NotHandled /\ answer.status_code = 403 /\ answer.rate_limit) =>
        /\ handled.error_action = "retry"
        /\ Len(handled.slept) = 1
        /\ handled.slept[1] >= 1
        /\ ~HasReset => handled.slept[1] = 60
        /\ (HasReset /\ ResetTime - answer.now >= 1) =>
              handled.slept[1] = ResetTime - answer.now
        /\ (HasReset /\ ResetTime - answer.now < 1) => handled.slept[1] = 1

\* C15 witness: the reset time of the header lies in the past, the wait is
\* one second.
C15_Witness ==
    /\ handled # NotHandled
    /\ answer.status_code = 403 /\ answer.rate_limit
    /\ HasReset
    /\ ResetTime < answer.now
    /\ handled.slept = <<1>>

\* C15, the other cases: the header is absent; the reset time is ahead.
C15_WitnessNoHeader ==
    /\ handled.error_action = "retry"
    /\ ~HasReset
    /\ handled.slept = <<60>>
C15_WitnessAhead ==
    /\ handled.error_action = "retry"
    /\ HasReset
    /\ ResetTime = answer.now + 3
    /\ handled.slept = <<3>>

\* ------------------------------------------------ waits of a profile lookup

\* The last answer to the profile lookup of an actor was a rate limit: the
\* number of such answers to this lookup so far is st.retries.
RateLimitedLookup ==
    /\ st.last.where = "user"
    /\ st.last.status_code = 403
    /\ st.last.rate_limit

\* C16 (as claimed): the sleep the lookup makes between attempt k and
\* attempt k + 1 is 60 * 2^(k - 1) seconds: 60, 120, 240.
C16_WaitsDouble ==
    RateLimitedLookup =>
        /\ st.slept # <<>>
        /\ st.slept[Len(st.slept)] = 60 * 2 ^ (st.retries - 1)

\* C16 (amended): after every rate-limit answer to a profile lookup the run
\* sleeps twice, the wait of _handle_api_error (at least 1 second, 60 without
\* the reset header) and then a fixed 60 seconds, the same after the first,
\* the second and the third answer; a lookup is attempted 3 times at most.
C16_FixedWait ==
    /\ RateLimitedLookup =>
          /\ st.retries \in 1 .. 3
          /\ Len(st.slept) = 2
          /\ st.slept[1] >= 1
          /\ (st.last.headers = {}) => st.slept[1] = 60
          /\ st.slept[2] = 60
    /\ st.pc = "fetch_user_metadata" => st.retries + 1 <= 3

\* C16 witness: the lookup is about to be attempted for the third time, and
\* the sleep before it was 60 seconds as before the second attempt.
C16_Witness ==
    /\ RateLimitedLookup
    /\ st.pc = "fetch_user_metadata"
    /\ st.retries = 2
    /\ st.slept = <<60, 60>>

\* ------------------------------------------------------ embedded profiles

\* The embedded profile u has the seven keys, whatever their values.
HasSevenKeys(u) ==
    {"name", "company", "location", "email", "bio", "followers", "public_repos"}
        \subseteq DOMAIN u

\* C17: an event is dealt with without a profile lookup exactly when its
\* embedded profile has the seven keys; the lookup the run waits on is for
\* an event whose profile lacks one; and the record of an event dealt with
\* without a lookup holds the embedded values, null ones as they are, with
\* the event's timestamp and repo.
C17_LookupOnlyWithoutEmbeddedProfile ==
    Enriching =>
        /\ \A i \in Handled :
              (st.lookups[i] = "prefetched") = HasSevenKeys(st.users_info[i].user_details)
        /\ st.pc = "fetch_user_metadata" =>
              /\ st.user_i = Len(st.lookups) + 1
              /\ ~HasSevenKeys(st.users_info[st.user_i].user_details)
        /\ \A i \in Handled :
              st.lookups[i] = "prefetched" =>
                  LET u == st.users_info[i].user_details
                      details == RecordOf(i)
                  IN  /\ \A k \in DOMAIN u : details[k] = u[k]
                      /\ details[TimestampKey] = st.users_info[i][TimestampKey]
                      /\ details.repo = st.users_info[i].repo
                      /\ DOMAIN details = DOMAIN u \cup {TimestampKey, "repo"}

\* C17 witness: of two stargazers one came with a full profile whose name is
\* null and one with its login only; the first was not looked up, the second
\* was, and both records were written.
C17_Witness ==
    /\ cmd = "repos"
    /\ st.pc = "done"
    /\ st.lookups = <<"prefetched", "fetched">>
    /\ st.users_info[1].user_details.name = "null"
    /\ Len(st.files) = 1
    /\ \E k \in DOMAIN st.files[1].rows : st.files[1].rows[k].location = "Mars"
    /\ \E k \in DOMAIN st.files[1].rows : st.files[1].rows[k].location = "Earth"

\* ------------------------------------------------------------ the export

\* The rows summarize_and_save was given, and the field it sorts by.
ExportInput == IF cmd = "account-trend" THEN st.final_df.rows ELSE st.all_metadata
ExportKey == IF cmd = "account-trend" THEN "star_date" ELSE TimestampKey

Occurrences(rows, row) == Cardinality({i \in DOMAIN rows : rows[i] = row})

\* C18: the rows of a written file are in descending order of the
\* timestamp or date field, and they are the rows given, each as many times
\* as it was given.
C18_WrittenMostRecentFirst ==
    \A f \in DOMAIN st.files :
        LET rows == st.files[f].rows
        IN  /\ \A i, j \in DOMAIN rows : i < j => rows[i][ExportKey] >= rows[j][ExportKey]
            /\ Len(rows) = Len(ExportInput)
            /\ \A i \in DOMAIN ExportInput :
                  Occurrences(rows, ExportInput[i]) = Occurrences(ExportInput, ExportInput[i])

\* C18 witness: the records of two repositories were given in an order that
\* is neither ascending nor descending, and were written.
C18_Witness ==
    /\ cmd = "repos"
    /\ st.files # <<>>
    /\ \E i, j \in DOMAIN ExportInput :
          i < j /\ ExportInput[i][ExportKey] < ExportInput[j][ExportKey]
    /\ \E i, j \in DOMAIN ExportInput :
          i < j /\ ExportInput[i][ExportKey] > ExportInput[j][ExportKey]

\* C18, forkers: a forks page listing the older fork first was written with
\* the newer fork first.
C18_WitnessForkers ==
    /\ cmd = "forkers"
    /\ repositories = <<REPO_UAB>>
    /\ st.pc = "done"
    /\ st.files # <<>>
    /\ Len(ExportInput) = 2
    /\ ExportInput[1][ExportKey] = 0
    /\ ExportInput[2][ExportKey] = SlotsPerDay + 1
    /\ st.files[1].rows[1][ExportKey] = SlotsPerDay + 1

\* C18, a trend table: given oldest day first, written latest day first.
C18_WitnessTrend ==
    /\ cmd = "account-trend"
    /\ st.files # <<>>
    /\ Len(ExportInput) >= 2
    /\ ExportInput[1].star_date < ExportInput[2].star_date
    /\ st.files[1].rows[1].star_date > st.files[1].rows[2].star_date

\* The file names the commands of the model are to give: u_a_b_... for the
\* single repository u/a_b, all_repos_... for several arguments, and
\* u_account_stars_by_day.csv for the account u.
U_A_B_STARGAZERS_CSV ==
    <<"u", "_", "a", "_", "b", "_", "s", "t", "a", "r", "g", "a", "z", "e", "r", "s", ".", "c", "s", "v">>
U_A_B_FORKERS_CSV ==
    <<"u", "_", "a", "_", "b", "_", "f", "o", "r", "k", "e", "r", "s", ".", "c", "s", "v">>
ALL_REPOS_STARGAZERS_CSV ==
    <<"a", "l", "l", "_", "r", "e", "p", "o", "s", "_", "s", "t", "a", "r", "g", "a", "z", "e", "r", "s", ".", "c", "s", "v">>
ALL_REPOS_FORKERS_CSV ==
    <<"a", "l", "l", "_", "r", "e", "p", "o", "s", "_", "f", "o", "r", "k", "e", "r", "s", ".", "c", "s", "v">>
U_ACCOUNT_STARS_BY_DAY_CSV ==
    <<"u", "_", "a", "c", "c", "o", "u", "n", "t", "_", "s", "t", "a", "r", "s", "_", "b", "y", "_", "d", "a", "y", ".", "c", "s", "v">>

ExpectedFileName ==
    CASE cmd = "account-trend" -> U_ACCOUNT_STARS_BY_DAY_CSV
      [] cmd = "repos" /\ repositories = <<<<"u", "/", "a", "_", "b">>>> -> U_A_B_STARGAZERS_CSV
      [] cmd = "repos" /\ repositories = <<<<"u", "/", "a", "/", "b">>>> -> U_A_B_STARGAZERS_CSV
      [] cmd = "repos" -> ALL_REPOS_STARGAZERS_CSV
      [] cmd = "forkers" /\ repositories = <<<<"u", "/", "a", "_", "b">>>> -> U_A_B_FORKERS_CSV
      [] OTHER -> ALL_REPOS_FORKERS_CSV

\* C19: a command writes one file at most, a command that ends successfully
\* with rows to export has written exactly one, and the name of the file is
\* the base identifier with '_' for every '/', then '_', the suffix of the
\* command and ".csv".
C19_OneFileNamedFromBase ==
    /\ Len(st.files) <= 1
    /\ (st.pc = "done" /\ st.exit_code = 0 /\ ExportInput # <<>>) => Len(st.files) = 1
    /\ \A f \in DOMAIN st.files :
          /\ st.files[f].name = ExpectedFileName
          /\ \A k \in DOMAIN st.files[f].name : st.files[f].name[k] # "/"

\* C19 witness: repos for the single repository u/a_b ended successfully and
\* wrote u_a_b_stargazers.csv.
C19_Witness ==
    /\ cmd = "repos"
    /\ Len(repositories) = 1
    /\ st.pc = "done"
    /\ st.exit_code = 0
    /\ Len(st.files) = 1
    /\ st.files[1].name = U_A_B_STARGAZERS_CSV

\* C19, account-trend: u_account_stars_by_day.csv.
C19_WitnessTrend ==
    /\ cmd = "account-trend"
    /\ st.pc = "done"
    /\ st.exit_code = 0
    /\ Len(st.files) = 1
    /\ st.files[1].name = U_ACCOUNT_STARS_BY_DAY_CSV

\* ----------------------------------------------------- the trend digest

\* The digests printed for a trend export, and the row of the latest date
\* of the table.
TrendDigests == {k \in DOMAIN st.printed : st.printed[k].kind = "trend"}
LatestRow ==
    CHOOSE row \in Range(TrendRows) : \A other \in Range(TrendRows) :
        row.star_date >= other.star_date

\* The per-repository new-stars columns, in the order of the table.
NewColumnsInOrder == SelectSeq(st.final_df.columns, LAMBDA col : EndsWith(col, NEW_STARS))

\* C20 (as claimed): the digest of a trend export gives as final cumulative
\* total the global cumulative count of the latest date, which is the total
\* of new stars, and for every repository column its cumulative count on
\* that latest date.
C20_DigestFinalTotals ==
    \A k \in TrendDigests :
        LET digest == st.printed[k]
        IN  /\ digest.final_cumulative = LatestRow.total_cumulative_stars_up_to_day
            /\ digest.final_cumulative = digest.total_new
            /\ Len(digest.per_repo) = Len(NewColumnsInOrder)
            /\ \A j \in DOMAIN digest.per_repo :
                  LET col == NewColumnsInOrder[j]
                      cumul_col == SubSeq(col, 1, Len(col) - Len(NEW_STARS)) \o CUMULATIVE_STARS
                  IN  /\ cumul_col \in DOMAIN LatestRow.c
                      /\ digest.per_repo[j].final_stars = LatestRow.c[cumul_col]

\* The replot run, and whether it made any request or waited on one.
Replot == cmd = "plot"
NoRequestMade ==
    /\ st.pc \in {"start", "done"}
    /\ st.calls = <<>>
    /\ st.n_items = 0
    /\ st.page = 0
    /\ st.failure = NoFailure
    /\ st.last = NoResponse
    /\ st.slept = <<>>
    /\ st.lookups = <<>>
MissingColumns == Range(TrendColumns) \ Range(file.fixed)

\* C21: plot --type account-trend checks that the file has the three
\* columns star_date, total_new_stars_on_day and
\* total_cumulative_stars_up_to_day before it renders: with any of them
\* missing it exits with code 1 and draws no chart; and on no path does it
\* make a network request.
C21_ReplotChecksColumns ==
    Replot =>
        /\ NoRequestMade
        /\ (st.pc = "done" /\ MissingColumns # {}) =>
               (st.exit_code = 1 /\ st.charts = <<>>)
        /\ st.charts # <<>> => MissingColumns = {}

\* A file without total_new_stars_on_day only, which the chart does not
\* read, was refused.
C21_Witness ==
    /\ Replot
    /\ st.pc = "done"
    /\ MissingColumns = {"total_new_stars_on_day"}
    /\ st.exit_code = 1
    /\ st.charts = <<>>

\* A file with the three columns was drawn, without a request.
C21_WitnessDrawn ==
    /\ Replot
    /\ st.pc = "done"
    /\ MissingColumns = {}
    /\ st.exit_code = 0
    /\ Len(st.charts) = 1
    /\ NoRequestMade

\* The frame the replot path plots from, and summaries of a frame.
Reread == DatedRows(ReadCsv(file))
DateMin(rows) ==
    CHOOSE d \in {rows[k].star_date : k \in DOMAIN rows} :
        \A k \in DOMAIN rows : d <= rows[k].star_date
DateMax(rows) ==
    CHOOSE d \in {rows[k].star_date : k \in DOMAIN rows} :
        \A k \in DOMAIN rows : d >= rows[k].star_date
TotalNew(rows) == SumSeq([k \in DOMAIN rows |-> rows[k].total_new_stars_on_day])
CumulativeAtLatest(rows) ==
    LET k == CHOOSE k \in DOMAIN rows : rows[k].star_date = DateMax(rows)
    IN  rows[k].total_cumulative_stars_up_to_day

\* C22: round trip: for every trend table account-trend wrote, reading
\* the written file back on the replot path gives the same date range
\* (minimum and maximum date), the same total of new stars and the same
\* final cumulative value (the value at the latest date, which is the last
\* point plotted) as the table held before the export.
C22_ExportReplotRoundTrip ==
    (Replot /\ exported # <<>> /\ st.pc = "done") =>
        /\ st.exit_code = 0
        /\ Len(st.charts) = 1
        /\ Len(Reread) = Len(exported)
        /\ DateMin(Reread) = DateMin(exported)
        /\ DateMax(Reread) = DateMax(exported)
        /\ TotalNew(Reread) = TotalNew(exported)
        /\ CumulativeAtLatest(Reread) = CumulativeAtLatest(exported)
        /\ LET chart == st.charts[1]
           IN  /\ chart.y_values[Len(chart.y_values)] = CumulativeAtLatest(exported)
               /\ chart.x_values[Len(chart.x_values)] =
                      DateMax(exported) - DateMin(exported)

\* A table of three days, written latest day first, was read back and
\* drawn up to its final count of three.
C22_Witness ==
    /\ Replot
    /\ st.pc = "done"
    /\ Len(exported) = 3
    /\ file.lines[1].star_date = FormatDate(2)
    /\ TotalNew(exported) = 3
    /\ Len(st.charts) = 1
    /\ st.charts[1].y_values = <<1, 2, 3>>
    /\ st.charts[1].x_values = <<0, 1, 2>>

\* A repository identifier is well formed when it has exactly one '/'.
Separators(repo) == Cardinality({i \in DOMAIN repo : repo[i] = "/"})
WellFormed(repo) == Separators(repo) = 1

\* The rows of the file written, as many as the records collected.
FileRows == IF st.files = <<>> THEN <<>> ELSE st.files[1].rows

\* C23 (as claimed): in repos and forkers, an argument whose identifier
\* format is invalid is skipped without any request made for it, and every
\* other argument, before and after it, is still fetched and included in
\* the output.
C23_InvalidArgumentSkipped ==
    Enriching =>
        /\ \A k \in DOMAIN repositories :
              ~WellFormed(repositories[k]) => repositories[k] \notin Range(st.calls)
        /\ RanToEnd =>
              /\ st.calls = SelectSeq(repositories, WellFormed)
              /\ \A i \in DOMAIN st.all_metadata :
                    st.all_metadata[i]["repo"] \in Range(st.calls)
              /\ Len(FileRows) = Len(st.all_metadata)

\* C24 (as claimed): every repository identifier a request is made for has
\* exactly one '/': one with no separator or with more than one is never
\* fetched, in repos, in forkers and for the --include-repo values of
\* account-trend.
C24_FetchedHaveOneSeparator ==
    \A i \in DOMAIN st.calls : WellFormed(st.calls[i])

\* The processed repositories that returned a star event, and the column
\* prefix of a repository.
Starred ==
    {repo \in Range(st.repos_to_process) :
        \E i \in DOMAIN st.all_star_events : st.all_star_events[i].repo_name = repo}
Prefix(repo) == Replace(repo, "/", "_")

\* C25: every row of the account-trend table carries, for every processed
\* repository, one that returned no star event while others returned some
\* included, a new-stars column and a cumulative-stars column named from
\* the identifier with '_' for '/'.
C25_ColumnsForEveryProcessed ==
    TrendBuilt =>
        \A rows \in TrendTables : \A k \in DOMAIN rows :
            \A repo \in Range(st.repos_to_process) :
                /\ Prefix(repo) \o NEW_STARS \in DOMAIN rows[k].c
                /\ Prefix(repo) \o CUMULATIVE_STARS \in DOMAIN rows[k].c

\* The statement of C25 for the processed repositories that returned a
\* star event only: each has its two columns, named from its identifier.
ColumnsForStarredProcessed ==
    TrendBuilt =>
        \A rows \in TrendTables : \A k \in DOMAIN rows :
            \A repo \in Starred :
                /\ Prefix(repo) \o NEW_STARS \in DOMAIN rows[k].c
                /\ Prefix(repo) \o CUMULATIVE_STARS \in DOMAIN rows[k].c

\* Two processed repositories that returned star events have the same
\* column prefix.
SharedPrefix ==
    \E r1, r2 \in Starred : r1 # r2 /\ Prefix(r1) = Prefix(r2)

\* Two repositories were processed and only one returned star events: the
\* table written has no column of the other.
NoColumnsWithoutEvents ==
    /\ TrendBuilt
    /\ st.files # <<>>
    /\ Len(st.repos_to_process) = 2
    /\ Cardinality(Starred) = 1
    /\ Len(st.final_df.columns) = 2
    /\ \E repo \in Range(st.repos_to_process) \ Starred :
          \A k \in DOMAIN TrendFileRows :
              /\ Prefix(repo) \o NEW_STARS \notin DOMAIN TrendFileRows[k].c
              /\ Prefix(repo) \o CUMULATIVE_STARS \notin DOMAIN TrendFileRows[k].c

\* An event the API reported twice: the same repository and the same
\* instant (the stargazer being the same in every item of a trend run).
ReportedTwice ==
    \E i, j \in DOMAIN st.all_star_events :
        i # j /\ st.all_star_events[i] = st.all_star_events[j]

\* C26: account-trend never deduplicates star events: the global
\* cumulative count at the latest date of the axis is the number of event
\* entries the fetches of all processed repositories returned, an event the
\* API reported twice being counted twice.
C26_EventsNotDeduplicated ==
    TrendBuilt =>
        /\ Len(st.all_star_events) = st.n_items
        /\ \A rows \in TrendTables :
              rows # <<>> => CumulativeAtLatest(rows) = st.n_items

\* One repository's stargazers list held the same event twice and the
\* table written ends at a count of two.
C26_Witness ==
    /\ TrendBuilt
    /\ st.files # <<>>
    /\ ReportedTwice
    /\ st.n_items = 2
    /\ Len(st.calls) = 1
    /\ CumulativeAtLatest(TrendFileRows) = 2

\* C27 (as claimed): column naming round-trips: in the per-repository
\* summary of a trend export the name printed for each <prefix>_new_stars
\* column is the owner/name identifier that produced the column, for every
\* identifier, those with a '_' included; and two distinct processed
\* identifiers never produce the same column prefix.
C27_ColumnNamesRoundTrip ==
    TrendBuilt =>
        /\ \A d \in TrendDigests : \A j \in DOMAIN st.printed[d].per_repo :
              LET line == st.printed[d].per_repo[j]
                  col == NewColumnsInOrder[j]
              IN  /\ line.repo_name \in Starred
                  /\ Prefix(line.repo_name) \o NEW_STARS = col
        /\ \A a, b \in Range(st.repos_to_process) :
              a # b => Prefix(a) # Prefix(b)

====
